---- MODULE Spec2Model ----
(***************************************************************************)
(* Model of src/main.py: the PalworldProcess supervisor (start / stop),    *)
(* the DiscordBot operations built on it (setup_hook, start_server,        *)
(* stop_server, restart_server, shutdown) and the child processes.         *)
(*                                                                         *)
(* Every coroutine runs on one asyncio event loop: the code between two    *)
(* awaits that really suspend is one atomic step, and any other task may   *)
(* run while a task is suspended.  PalworldProcess.start suspends once, in *)
(* create_subprocess_exec (the child is forked when the call is made, the  *)
(* handle is stored when the task is resumed); PalworldProcess.stop        *)
(* suspends once, in Process.wait.  A task is modelled by the operation it *)
(* runs, the await it is suspended in (pc) and its local handle (h).       *)
(* The command handlers add the reply sent to the caller; the status       *)
(* publisher (update_presence under tasks.loop) is followed by the place   *)
(* its loop is in, the last snapshot fetched and the last text accepted.   *)
(***************************************************************************)
EXTENDS Integers, FiniteSets, Sequences, TLC

\* Number of commands and signals delivered in one run (task 0 is setup_hook).
MaxTasks == 3

None == 0

Tasks == 0 .. MaxTasks

\* Every task forks at most one child, so pids never exceed the task count.
Pids == 1 .. (MaxTasks + 1)

\* Number of presence updates followed in one run.
MaxPublish == 2

VARIABLES
    proc,        \* PalworldProcess._proc: None or the pid of the stored handle
    alive,       \* pids of the child processes that are running
    npids,       \* number of children forked so far (the last pid handed out)
    sigterm,     \* sigterm[p]: number of send_signal(SIGTERM) calls on p
    nfail,       \* number of create_subprocess_exec calls that raised
    closed,      \* DiscordBot.close() has been called
    publisher,   \* update_presence.start() has been called
    registered,  \* tree.sync() has completed
    task,        \* task[t] = [op, pc, h]
    ntasks,      \* number of command / signal tasks created so far
    group,       \* tasks invoked since the supervisor was last quiescent
    base,        \* supervisor state when the first task of group was invoked
    reply,       \* reply[t]: what the caller of command t has been sent
    ready,       \* the session-ready gate (Client.wait_until_ready) is open
    loop,        \* where the update_presence loop is, once it is started
    metrics,     \* the MemoryMetrics fetched by the last iteration
    sink,        \* the presence text last accepted by the gateway
    npub         \* number of presence updates accepted by the gateway

pubvars == <<ready, loop, metrics, sink, npub>>

vars == <<proc, alive, npids, sigterm, nfail, closed, publisher, registered,
          task, ntasks, group, base, reply, ready, loop, metrics, sink, npub>>

\* The part of the state the operations read and write, as one record.
World ==
    [proc |-> proc, alive |-> alive, npids |-> npids, sigterm |-> sigterm,
     nfail |-> nfail, closed |-> closed, publisher |-> publisher]

\* A task is inside a lifecycle operation when it is suspended in one.
InFlight(t) ==
    task[t].pc \in {"spawning", "waiting"}

Quiescent ==
    \A t \in Tasks : ~InFlight(t)

----------------------------------------------------------------------------
(* PalworldProcess *)

\* start without the "already running" check.
start_unchecked(s, ok) ==
    IF ok
    THEN LET p == s.npids + 1
         IN  [s  |-> [s EXCEPT !.npids = p, !.alive = @ \cup {p}],
              pc |-> "spawning", h |-> p]
    ELSE [s |-> [s EXCEPT !.nfail = @ + 1], pc |-> "spawn_error", h |-> None]

\* start swallowing the exception of create_subprocess_exec.
start_swallowing(s, ok) ==
    IF s.proc # None
    THEN [s |-> s, pc |-> "returned", h |-> None]
    ELSE IF ok
         THEN LET p == s.npids + 1
              IN  [s  |-> [s EXCEPT !.npids = p, !.alive = @ \cup {p}],
                   pc |-> "spawning", h |-> p]
         ELSE [s |-> [s EXCEPT !.nfail = @ + 1], pc |-> "returned", h |-> None]

\* start, from its call to its first suspension (or its return / raise).
\* ok: whether create_subprocess_exec manages to fork the binary.
start(s, ok) ==
    IF s.proc # None
    THEN [s |-> s, pc |-> "returned", h |-> None]
    ELSE IF ok
         THEN LET p == s.npids + 1
              IN  [s  |-> [s EXCEPT !.npids = p, !.alive = @ \cup {p}],
                   pc |-> "spawning", h |-> p]
         ELSE [s |-> [s EXCEPT !.nfail = @ + 1], pc |-> "spawn_error", h |-> None]

\* start, resumed after create_subprocess_exec: self._proc = proc.
start_resume(s, h) ==
    [s EXCEPT !.proc = h]

\* stop clearing the handle right after the signal, without waiting.
stop_no_wait(s, gone) ==
    IF s.proc = None
    THEN [s |-> s, pc |-> "returned", h |-> None]
    ELSE [s  |-> [s EXCEPT !.sigterm[s.proc] = @ + 1, !.proc = None],
          pc |-> "returned", h |-> None]

\* stop, from its call to its suspension in wait() (or its early return).
\* gone: the stored handle is of a process that has exited and whose
\* transport is finished, so that send_signal raises ProcessLookupError;
\* otherwise send_signal succeeds and wait() is entered.
stop(s, gone) ==
    IF s.proc = None
    THEN [s |-> s, pc |-> "returned", h |-> None]
    ELSE IF s.proc \notin s.alive /\ gone
         THEN [s |-> s, pc |-> "lookup_error", h |-> None]
         ELSE [s  |-> [s EXCEPT !.sigterm[s.proc] = @ + 1],
               pc |-> "waiting", h |-> s.proc]

\* wait() returning at once.
wait_skipped(s, h) ==
    TRUE

\* wait() returns once the process it was called on has exited.
wait_done(s, h) ==
    h \notin s.alive

\* stop leaving the handle in place.
stop_resume_keeping(s) ==
    s

\* stop, resumed after wait(): self._proc = None.
stop_resume(s) ==
    [s EXCEPT !.proc = None]

----------------------------------------------------------------------------
(* DiscordBot *)

\* close(), called at the end of shutdown.
close(s) ==
    [s EXCEPT !.closed = TRUE]

\* setup_hook after start has returned: update_presence.start(), then the
\* task suspends in tree.sync().
setup_after_start(s) ==
    [s |-> [s EXCEPT !.publisher = TRUE], pc |-> "syncing", h |-> None]

\* What the caller of stop does once stop has returned, up to the next
\* suspension: restart_server calls start, shutdown calls close.
after_stop(op, s, ok) ==
    CASE op = "restart_server" -> start(s, ok)
      [] op = "shutdown"       -> [s |-> close(s), pc |-> "returned", h |-> None]
      [] OTHER                 -> [s |-> s, pc |-> "returned", h |-> None]

\* What the caller of start does once start has returned.
after_start(op, s) ==
    IF op = "setup_hook"
    THEN setup_after_start(s)
    ELSE [s |-> s, pc |-> "returned", h |-> None]

\* setup_hook starting the metrics updater before Palworld.
call_publisher_first(op, s, ok, gone) ==
    IF op = "setup_hook"
    THEN LET r == start([s EXCEPT !.publisher = TRUE], ok)
         IN  IF r.pc = "returned" THEN after_start(op, r.s) ELSE r
    ELSE IF op = "start_server"
         THEN LET r == start(s, ok)
              IN  IF r.pc = "returned" THEN after_start(op, r.s) ELSE r
         ELSE LET r == stop(s, gone)
              IN  IF r.pc = "returned" THEN after_stop(op, r.s, ok) ELSE r

\* An operation from its call to its first suspension.
call(op, s, ok, gone) ==
    IF op \in {"setup_hook", "start_server"}
    THEN LET r == start(s, ok)
         IN  IF r.pc = "returned" THEN after_start(op, r.s) ELSE r
    ELSE LET r == stop(s, gone)
         IN  IF r.pc = "returned" THEN after_stop(op, r.s, ok) ELSE r

\* A task suspended in create_subprocess_exec is resumed.
resume_spawning(op, s, h) ==
    after_start(op, start_resume(s, h))

\* A task suspended in wait() is resumed.
resume_waiting(op, s, ok) ==
    after_stop(op, stop_resume(s), ok)

----------------------------------------------------------------------------
(* MemoryMetrics and update_presence *)

NoMetrics == [total |-> -1, used |-> -1, swap_total |-> -1, swap_used |-> -1]

NoText == [memory |-> -1, swap |-> -1]

\* MemoryMetrics.fetch(): total and used memory and swap in bytes, used
\* within total; the swap total is 0 on a host with no swap configured.
Snapshots ==
    {m \in [total : {1000}, used : {0, 500}, swap_total : {0, 1000},
            swap_used : {0, 500}] :
        m.used <= m.total /\ m.swap_used <= m.swap_total}

\* used / total * 100 as f"{x:.1f}" prints it, in tenths of a percent.
\* Only defined for total # 0: Python raises ZeroDivisionError otherwise.
percent(used, total) ==
    ((used * 2000) \div total + 1) \div 2

\* The text of one presence update: "Memory: x%; Swap: y%".
presence_text(m) ==
    [memory |-> percent(m.used, m.total),
     swap   |-> percent(m.swap_used, m.swap_total)]

\* One iteration of update_presence on the snapshot m.
\* push: what change_presence does: "ok", or it raises an exception that
\* tasks.loop retries after ("transient": OSError, ConnectionClosed, ...),
\* or one that ends the loop ("fatal").  The result is where the loop is
\* afterwards (sleeping until the next iteration, or ended by the exception
\* named) and the text the gateway accepted, if any.
update_presence(m, push) ==
    IF m.total = 0 \/ m.swap_total = 0
    THEN [loop |-> "zero_division", text |-> NoText]
    ELSE CASE push = "ok"        -> [loop |-> "sleeping", text |-> presence_text(m)]
           [] push = "transient" -> [loop |-> "sleeping", text |-> NoText]
           [] OTHER              -> [loop |-> "push_error", text |-> NoText]

----------------------------------------------------------------------------
(* Actions *)

Init ==
    /\ proc = None
    /\ alive = {}
    /\ npids = 0
    /\ sigterm = [p \in Pids |-> 0]
    /\ nfail = 0
    /\ closed = FALSE
    /\ publisher = FALSE
    /\ registered = FALSE
    /\ task = [t \in Tasks |-> [op |-> "none", pc |-> "none", h |-> None]]
    /\ ntasks = 0
    /\ group = {}
    /\ base = World
    /\ reply = [t \in Tasks |-> "none"]
    /\ ready = FALSE
    /\ loop = "before_loop"
    /\ metrics = NoMetrics
    /\ sink = NoText
    /\ npub = 0

\* The state after task t, running op, has executed up to result r.
Apply(t, op, r) ==
    /\ proc' = r.s.proc
    /\ alive' = r.s.alive
    /\ npids' = r.s.npids
    /\ sigterm' = r.s.sigterm
    /\ nfail' = r.s.nfail
    /\ closed' = r.s.closed
    /\ publisher' = r.s.publisher
    /\ task' = [task EXCEPT ![t] = [op |-> op, pc |-> r.pc, h |-> r.h]]
    /\ UNCHANGED pubvars

\* Task t starts running op.
Invoke(t, op) ==
    /\ task[t].op = "none"
    /\ \E ok, gone \in BOOLEAN : Apply(t, op, call(op, World, ok, gone))
    /\ group' = IF Quiescent THEN {t} ELSE group \cup {t}
    /\ base' = IF Quiescent THEN World ELSE base

\* client.run(): the event loop starts and runs setup_hook.
RunSetup ==
    /\ Invoke(0, "setup_hook")
    /\ UNCHANGED <<registered, ntasks, reply>>

\* The gateway delivers a command once setup_hook is over, until close():
\* interaction.response.defer() has returned and the handler calls op.
Command(op) ==
    /\ task[0].pc = "returned"
    /\ ~closed
    /\ ntasks < MaxTasks
    /\ Invoke(ntasks + 1, op)
    /\ ntasks' = ntasks + 1
    /\ reply' = [reply EXCEPT ![ntasks + 1] = "deferred"]
    /\ UNCHANGED registered

StartServer == Command("start_server")

StopServer == Command("stop_server")

RestartServer == Command("restart_server")

\* SIGINT or SIGTERM while the event loop runs: the handler creates a task
\* running shutdown().
Signal ==
    /\ task[0].op # "none"
    /\ task[0].pc # "spawn_error"
    /\ ~closed
    /\ ntasks < MaxTasks
    /\ Invoke(ntasks + 1, "shutdown")
    /\ ntasks' = ntasks + 1
    /\ UNCHANGED <<registered, reply>>

\* create_subprocess_exec returns in task t.
SpawnDone(t) ==
    /\ task[t].pc = "spawning"
    /\ Apply(t, task[t].op, resume_spawning(task[t].op, World, task[t].h))
    /\ UNCHANGED <<registered, ntasks, group, base, reply>>

\* wait() returns in task t.
WaitDone(t) ==
    /\ task[t].pc = "waiting"
    /\ wait_done(World, task[t].h)
    /\ \E ok \in BOOLEAN :
           Apply(t, task[t].op, resume_waiting(task[t].op, World, ok))
    /\ UNCHANGED <<registered, ntasks, group, base, reply>>

\* tree.sync() returns in setup_hook.
SetupSynced ==
    /\ task[0].pc = "syncing"
    /\ task' = [task EXCEPT ![0].pc = "returned"]
    /\ registered' = TRUE
    /\ UNCHANGED <<proc, alive, npids, sigterm, nfail, closed, publisher,
                   ntasks, group, base, reply>>
    /\ UNCHANGED pubvars

\* A child that has been sent SIGTERM exits.
ChildExit(p) ==
    /\ p \in alive
    /\ sigterm[p] > 0
    /\ alive' = alive \ {p}
    /\ UNCHANGED <<proc, npids, sigterm, nfail, closed, publisher, registered,
                   task, ntasks, group, base, reply>>
    /\ UNCHANGED pubvars

CommandOps == {"start_server", "stop_server", "restart_server"}

\* The text each command handler sends with interaction.followup.send.
acknowledgement(op) ==
    CASE op = "start_server"   -> "Started server"
      [] op = "stop_server"    -> "Stopped server"
      [] op = "restart_server" -> "Restarted server"

\* The handler sending its acknowledgement while the operation still runs.
FollowupEarly(t) ==
    /\ task[t].op \in CommandOps
    /\ task[t].pc \in {"returned", "spawning", "waiting"}
    /\ reply[t] = "deferred"
    /\ \E delivered \in BOOLEAN :
           reply' = [reply EXCEPT ![t] = IF delivered
                                         THEN acknowledgement(task[t].op)
                                         ELSE "undelivered"]
    /\ UNCHANGED <<proc, alive, npids, sigterm, nfail, closed, publisher,
                   registered, task, ntasks, group, base>>
    /\ UNCHANGED pubvars

\* The operation has returned to the command handler of task t, which calls
\* interaction.followup.send; the message reaches the caller or the send
\* fails.  An operation that raised never gets here: the exception leaves
\* the handler.
Followup(t) ==
    /\ task[t].op \in CommandOps
    /\ task[t].pc = "returned"
    /\ reply[t] = "deferred"
    /\ \E delivered \in BOOLEAN :
           reply' = [reply EXCEPT ![t] = IF delivered
                                         THEN acknowledgement(task[t].op)
                                         ELSE "undelivered"]
    /\ UNCHANGED <<proc, alive, npids, sigterm, nfail, closed, publisher,
                   registered, task, ntasks, group, base>>
    /\ UNCHANGED pubvars

\* The gateway session is established after setup_hook: the ready gate
\* opens.
Ready ==
    /\ task[0].pc = "returned"
    /\ ~closed
    /\ ~ready
    /\ ready' = TRUE
    /\ UNCHANGED <<proc, alive, npids, sigterm, nfail, closed, publisher,
                   registered, task, ntasks, group, base, reply,
                   loop, metrics, sink, npub>>

Outcomes == {"ok", "transient", "fatal"}

\* The update_presence loop runs an iteration: the first one once
\* before_update_presence has passed the ready gate, the next ones after each
\* sleep.  fetch: what MemoryMetrics.fetch() does; m: the snapshot it
\* returns; push: what change_presence does (it cannot succeed once the
\* gateway is closed).
Tick ==
    /\ publisher
    /\ ready
    /\ loop \in {"before_loop", "sleeping"}
    /\ npub < MaxPublish
    /\ \E fetch \in Outcomes, m \in Snapshots, push \in Outcomes :
          /\ closed => push # "ok"
          /\ IF fetch = "ok"
             THEN LET r == update_presence(m, push)
                  IN  /\ metrics' = m
                      /\ loop' = r.loop
                      /\ sink' = IF r.text = NoText THEN sink ELSE r.text
                      /\ npub' = IF r.text = NoText THEN npub ELSE npub + 1
             ELSE /\ loop' = IF fetch = "transient"
                              THEN "sleeping"
                              ELSE "fetch_error"
                  /\ UNCHANGED <<metrics, sink, npub>>
    /\ UNCHANGED <<proc, alive, npids, sigterm, nfail, closed, publisher,
                   registered, task, ntasks, group, base, reply, ready>>

Next ==
    \/ RunSetup
    \/ StartServer
    \/ StopServer
    \/ RestartServer
    \/ Signal
    \/ \E t \in Tasks : SpawnDone(t)
    \/ \E t \in Tasks : WaitDone(t)
    \/ SetupSynced
    \/ \E p \in Pids : ChildExit(p)
    \/ \E t \in Tasks : Followup(t)

Spec == Init /\ [][Next]_vars

\* setup_hook, the signals, the child and the update_presence loop: the
\* part of the program the status publisher lives in.
NextPub ==
    \/ RunSetup
    \/ Signal
    \/ \E t \in Tasks : SpawnDone(t)
    \/ \E t \in Tasks : WaitDone(t)
    \/ SetupSynced
    \/ \E p \in Pids : ChildExit(p)
    \/ Ready
    \/ Tick

SpecPub == Init /\ [][NextPub]_vars

\* A child exits on its own, without having been sent SIGTERM.
ChildCrash(p) ==
    /\ p \in alive
    /\ sigterm[p] = 0
    /\ alive' = alive \ {p}
    /\ UNCHANGED <<proc, npids, sigterm, nfail, closed, publisher, registered,
                   task, ntasks, group, base, reply>>
    /\ UNCHANGED pubvars

NextCrash ==
    \/ Next
    \/ \E p \in Pids : ChildCrash(p)

SpecCrash == Init /\ [][NextCrash]_vars

\* The event loop resumes every task whose await has completed, a child
\* that was sent SIGTERM exits, and a handler whose operation has returned
\* sends its acknowledgement.
FairSpec ==
    /\ Spec
    /\ \A t \in Tasks : WF_vars(SpawnDone(t))
    /\ \A t \in Tasks : WF_vars(WaitDone(t))
    /\ \A t \in Tasks : WF_vars(Followup(t))
    /\ \A p \in Pids : WF_vars(ChildExit(p))

----------------------------------------------------------------------------
(* Properties *)

StopOps == {"stop_server", "restart_server", "shutdown"}

\* Task t is created by this step, running one of ops.
Invoked(t, ops) ==
    /\ task[t].op = "none"
    /\ task'[t].op \in ops

\* s is Running with a handle to its only live, unsignalled child, or Stopped
\* with no live child.
Consistent(s) ==
    \/ /\ s.proc # None
       /\ s.alive = {s.proc}
       /\ s.sigterm[s.proc] = 0
    \/ /\ s.proc = None
       /\ s.alive = {}

\* C1: under every interleaving of start, stop, restart and shutdown there
\* are never two live child processes at the same time.
AtMostOneLiveChild ==
    Cardinality(alive) <= 1

\* C2: lifecycle operations are mutually exclusive: at most one task is
\* suspended between its first read of the handle slot and its final write.
LifecycleMutex ==
    Cardinality({t \in Tasks : InFlight(t)}) <= 1

\* One start_server and one stop_server, the second invoked while the first
\* was in flight, starting from a consistent supervisor, have both returned.
StartStopPairDone ==
    /\ Quiescent
    /\ Cardinality(group) = 2
    /\ {task[t].op : t \in group} = {"start_server", "stop_server"}
    /\ Consistent(base)

\* C3: once a concurrent start and stop have both returned, the supervisor is
\* Running with a handle to exactly one live child or Stopped with no live
\* child.
StartStopConsistent ==
    StartStopPairDone => Consistent(World)

StartStopFromStopped ==
    /\ StartStopPairDone
    /\ base.proc = None
    /\ proc # None

\* C4: restart forks the new child only after the old one was signalled and
\* has exited; run alone from Running it returns in Running with another pid.
RestartOrdering ==
    /\ [][\A t \in Tasks :
            /\ ( /\ task[t].op = "restart_server"
                 /\ task[t].pc = "waiting"
                 /\ task'[t].pc = "spawning" )
               => /\ sigterm[task[t].h] > 0
                  /\ task[t].h \notin alive
                  /\ npids' = npids + 1
            /\ (Invoked(t, {"restart_server"}) /\ proc \in alive)
               => /\ npids' = npids
                  /\ sigterm'[proc] = sigterm[proc] + 1
                  /\ task'[t].pc = "waiting"]_vars
    /\ [](\A t \in Tasks :
            ( /\ task[t].op = "restart_server"
              /\ task[t].pc = "returned"
              /\ group = {t}
              /\ base.proc # None
              /\ Consistent(base) )
            => /\ proc \notin {None, base.proc}
               /\ alive = {proc})

RestartedAlone ==
    \E t \in Tasks :
        /\ task[t].op = "restart_server"
        /\ task[t].pc = "returned"
        /\ group = {t}
        /\ base.proc # None
        /\ Consistent(base)
        /\ proc \notin {None, base.proc}

\* C5: a stop called in Running sends the signal and suspends with the handle
\* still stored; it clears the handle and goes on only once the process it
\* signalled has exited.
StopTwoPhase ==
    [][\A t \in Tasks :
          /\ (Invoked(t, StopOps) /\ proc \in alive)
             => /\ sigterm'[proc] = sigterm[proc] + 1
                /\ task'[t].pc = "waiting"
                /\ task'[t].h = proc
                /\ proc' = proc
                /\ alive' = alive
          /\ (task[t].pc = "waiting" /\ task'[t].pc # "waiting")
             => /\ sigterm[task[t].h] > 0
                /\ task[t].h \notin alive
                /\ proc' = None]_vars

StoppedAfterWait ==
    \E t \in Tasks :
        /\ task[t].op = "stop_server"
        /\ task[t].pc = "returned"
        /\ sigterm[1] > 0
        /\ 1 \notin alive
        /\ proc = None

OnlyStartCommands ==
    \A t \in Tasks \ {0} : task[t].op \in {"none", "start_server"}

\* C6: a start called in Running forks nothing and leaves the handle as it
\* is; starts in sequence with no stop fork exactly one child.
StartIdempotent ==
    /\ [][\A t \in Tasks :
            (Invoked(t, {"start_server"}) /\ proc # None)
            => /\ npids' = npids
               /\ alive' = alive
               /\ proc' = proc
               /\ task'[t].pc = "returned"]_vars
    /\ [](OnlyStartCommands => npids <= 1)

StartedTwice ==
    /\ OnlyStartCommands
    /\ task[0].pc = "returned"
    /\ task[1].op = "start_server"
    /\ task[1].pc = "returned"
    /\ npids = 1
    /\ proc = 1

OnlyStopCommands ==
    \A t \in Tasks \ {0} : task[t].op \in {"none", "stop_server"}

\* C7: a stop called in Stopped sends no signal and changes nothing; stop
\* called twice with no intervening start, the second call also while the
\* first is waiting for the exit, sends exactly one signal.
StopSignalsOnce ==
    /\ [][\A t \in Tasks :
            (Invoked(t, {"stop_server"}) /\ proc = None)
            => /\ UNCHANGED <<proc, alive, npids, sigterm>>
               /\ task'[t].pc = "returned"]_vars
    /\ [](OnlyStopCommands => \A p \in Pids : sigterm[p] <= 1)

\* C8: when the spawn fails the error reaches the caller of start and the
\* handle slot is empty: no process is recorded.
SpawnFailureStopped ==
    [][nfail' > nfail
       => /\ proc' = None
          /\ alive' = alive
          /\ npids' = npids
          /\ \E t \in Tasks :
                /\ task[t].pc # "spawn_error"
                /\ task'[t].pc = "spawn_error"]_vars

RestartSpawnFailed ==
    \E t \in Tasks :
        /\ task[t].op = "restart_server"
        /\ task[t].pc = "spawn_error"
        /\ nfail > 0
        /\ proc = None

\* C9: the shutdown sequence runs at most once: a second signal is a no-op.
ShutdownOnce ==
    [][\A t \in Tasks :
          (Invoked(t, {"shutdown"}) /\ \E u \in Tasks : task[u].op = "shutdown")
          => UNCHANGED <<proc, alive, sigterm, closed>>]_vars

\* C10: at the moment shutdown closes the gateway no child spawned by the
\* supervisor is alive.
NoOrphanAtClose ==
    [][(~closed /\ closed') => alive' = {}]_vars

ErrorPcs == {"spawn_error", "lookup_error"}

Acknowledgements == {acknowledgement(op) : op \in CommandOps}

\* C11: when a command fails in the supervisor with a spawn error, a failure
\* message reaches the caller: once the exception has left the handler the
\* deferred reply is not left unanswered, and no success acknowledgement is
\* sent.
CommandFailureReported ==
    \A t \in Tasks :
        (task[t].op \in CommandOps /\ task[t].pc = "spawn_error")
        => reply[t] \notin {"deferred"} \cup Acknowledgements

\* C12: the reply of a command is deferred when its operation starts; the
\* acknowledgement of that command is sent only once the operation has
\* returned, and sending it (delivered or not) leaves the supervisor as the
\* operation left it.
DeferredReply ==
    /\ [][\A t \in Tasks :
            /\ Invoked(t, CommandOps) => reply'[t] = "deferred"
            /\ reply'[t] # reply[t]
               => \/ Invoked(t, CommandOps)
                  \/ /\ reply[t] = "deferred"
                     /\ task[t].pc = "returned"
                     /\ reply'[t] \in {acknowledgement(task[t].op), "undelivered"}
                     /\ UNCHANGED <<proc, alive, npids, sigterm, task>>]_vars
    /\ [](\A t \in Tasks :
            reply[t] \in Acknowledgements
            => /\ task[t].pc = "returned"
               /\ reply[t] = acknowledgement(task[t].op))

RestartUndelivered ==
    \E t \in Tasks :
        /\ task[t].op = "restart_server"
        /\ reply[t] = "undelivered"
        /\ proc = 2
        /\ alive = {2}

\* C13: a command issued while an earlier lifecycle call is settling raises
\* no error and waits for the earlier call; with every signalled child
\* exiting and every spawn succeeding, every command is acknowledged.
CommandsQueue ==
    /\ [](\A t \in Tasks :
            task[t].op \in CommandOps => task[t].pc # "lookup_error")
    /\ [][\A t \in Tasks :
            (Invoked(t, CommandOps) /\ ~Quiescent)
            => task'[t].pc # "returned"]_vars
    /\ \A t \in Tasks :
          (task[t].op \in CommandOps)
          ~> (reply[t] \in Acknowledgements \cup {"undelivered"} \/ nfail > 0)

\* The part of C13 the code has: every command returns or raises.
CommandsSettle ==
    \A t \in Tasks :
        (task[t].op \in CommandOps)
        ~> (reply[t] # "deferred" \/ task[t].pc \in ErrorPcs)

ShutdownBegun ==
    \E t \in Tasks : task[t].op = "shutdown"

\* C14: nothing is published before the ready gate has opened; once it is
\* open the publisher loop keeps running until shutdown.
PublisherGatedAndRunning ==
    /\ [][npub' > npub => ready]_vars
    /\ []((publisher /\ ready /\ ~ShutdownBegun)
          => loop \in {"before_loop", "sleeping"})

\* C15: a failed fetch of the metrics or a failed push to the presence sink
\* does not end the publisher loop.
PublishFailureSurvived ==
    loop \notin {"fetch_error", "push_error"}

\* The percentages the status is to show, in tenths of a percent: zero for a
\* zero total.
ExpectedText(m) ==
    [memory |-> IF m.total = 0 THEN 0 ELSE (m.used * 1000) \div m.total,
     swap   |-> IF m.swap_total = 0
                THEN 0
                ELSE (m.swap_used * 1000) \div m.swap_total]

\* C16: a snapshot with a zero total raises no arithmetic fault: the loop
\* goes on and every accepted status shows used/total*100, or zero for a
\* zero total.
ZeroTotalsPublished ==
    /\ [](loop # "zero_division")
    /\ [][npub' > npub => sink' = ExpectedText(metrics')]_vars

\* C17: once the shutdown sequence has begun no status is published.
PublisherStoppedFirst ==
    [][npub' > npub => ~ShutdownBegun]_vars

\* C18: after the child has exited on its own the handle stays stored and
\* start stays a no-op until the next stop; that stop raises no error and,
\* run alone, leaves the supervisor Stopped.
StaleHandleCleared ==
    /\ [][\A t \in Tasks :
            /\ (Invoked(t, {"start_server"}) /\ proc # None)
               => (proc' = proc /\ npids' = npids)
            /\ (Invoked(t, {"stop_server"}) /\ proc # None /\ proc \notin alive)
               => task'[t].pc # "lookup_error"]_vars
    /\ [](\A t \in Tasks :
            ( /\ task[t].op = "stop_server"
              /\ task[t].pc = "returned"
              /\ group = {t} )
            => proc = None)

\* C19: the supervisor never loses track of a live child: in particular a
\* start that stores its handle never overwrites the handle of a live
\* process.
NoLostChild ==
    [][\A t \in Tasks :
          (task[t].pc = "spawning" /\ task'[t].pc # "spawning")
          => proc \notin alive]_vars

\* C20: setup_hook starts the publisher and registers the commands only with
\* the child spawned and its handle stored; when the first spawn fails the
\* publisher is never started and no command is registered or run.
SetupOrdering ==
    /\ [][(publisher' /\ ~publisher)
          => /\ proc' # None
             /\ proc' \in alive'
             /\ ~registered']_vars
    /\ [](registered => (publisher /\ npids >= 1))
    /\ [](task[0].pc = "spawn_error"
          => /\ ~publisher
             /\ ~registered
             /\ \A t \in Tasks : task[t].op \notin CommandOps)

SetupCompleted ==
    /\ task[0].pc = "returned"
    /\ registered
    /\ publisher
    /\ proc = 1
====
